---- MODULE Spec2Model ----
(***************************************************************************)
(* Model of internal/rsm/managedstatemachine.go and internal/rsm/sm.go:    *)
(* the offload tracker (OffloadedStatus), the managed state machine's      *)
(* Loaded / Offloaded / Lookup under its RWMutex, and the session manager. *)
(***************************************************************************)
EXTENDS Integers, Sequences, FiniteSets, TLC

(* ----------------------------- bounds ---------------------------------- *)
\* From values range over 0..MaxFrom; values above FromSnapshotWorker are
\* the "unknown offloadFrom value" inputs.
MaxFrom == 4
\* number of goroutines calling Lookup concurrently
NumLookups == 2
\* client IDs range over 1..MaxClient, series IDs over 1..MaxSeries
MaxClient == 1
MaxSeries == 2
\* section sizes of a snapshot range over 0..MaxLen
MaxLen == 2

(* -------------------------- program constants --------------------------- *)
FromNodeHost == 0
FromStepWorker == 1
FromCommitWorker == 2
FromSnapshotWorker == 3
\* the fixed size of the trailing snapshot header
SnapshotHeaderSize == 1024

Froms == 0..MaxFrom
Workers == {FromStepWorker, FromCommitWorker, FromSnapshotWorker}
LookupThreads == 1..NumLookups

ErrClusterClosed == "raft cluster already closed"

NoOne == -1

ClientIDs == 1..MaxClient
\* series IDs of proposals start at 1; 0 is only a respondedTo value
SeriesIDs == 1..MaxSeries
RespondedTos == 0..MaxSeries
\* the values the user state machine's Update may return
UpdateResults == {7, 9}

VARIABLES
  o,          \* the embedded OffloadedStatus record
  mu,         \* sync.RWMutex: [w |-> From holding Lock or NoOne, r |-> readers]
  wpc,        \* position of the goroutine holding the write lock
  lk,         \* per Lookup goroutine: position, what it observed, what it returned
  closeCount, \* number of invocations of ds.sm.Close()
  lastReport, \* per worker: last successful Loaded/Offloaded report
  sessions,   \* the session manager's collection: client ID -> Session
  lastOp,     \* the last session-manager / Update call: its name, client,
              \* series argument, and whether it invoked the adapter's Update
  applied,    \* per (client, series) of the live sessions: the set holding
              \* the result of the first adapter Update, empty if none ran
  twice,      \* the adapter's Update ran a second time for some such pair
  advanced,   \* per live session: largest value passed to UpdateRespondedTo
  concurrent, \* the adapter is a ConcurrentStateMachine (else a Regular one)
  prep,       \* the last PrepareSnapshot call
  save,       \* the SaveSnapshot call: position, arguments, writes, result
  rec,        \* the RecoverFromSnapshot call: position, stages run, result
  fatal       \* NoPanic, or the message of the panic that aborted the process

lifecycleVars == <<o, mu, wpc, lk, closeCount, lastReport>>
sessionVars == <<sessions, lastOp, applied, twice, advanced>>
snapVars == <<concurrent, prep, save, rec>>
vars == <<o, mu, wpc, lk, closeCount, lastReport,
          sessions, lastOp, applied, twice, advanced,
          concurrent, prep, save, rec, fatal>>

(* --------------------------- OffloadedStatus ---------------------------- *)
NewOffloadedStatus ==
  [ readyToDestroy              |-> FALSE,
    destroyed                   |-> FALSE,
    offloadedFromNodeHost       |-> FALSE,
    offloadedFromStepWorker     |-> FALSE,
    offloadedFromCommitWorker   |-> FALSE,
    offloadedFromSnapshotWorker |-> FALSE,
    loadedByStepWorker          |-> FALSE,
    loadedByCommitWorker        |-> FALSE,
    loadedBySnapshotWorker      |-> FALSE ]

ReadyToDestroy(s) == s.readyToDestroy

Destroyed(s) == s.destroyed

SetDestroyed(s) == [s EXCEPT !.destroyed = TRUE]

\* the panic messages of this file; NoPanic is a normal return
NoPanic == ""
PanicLoadedAfterOffloaded == "loaded from %v after offloaded from nodehost"
PanicLoadedFromNodeHost == "not suppose to get loaded notification from nodehost"
PanicUnknownFrom == "unknown offloadFrom value"

\* SetLoaded without the "offloaded from nodehost" check
SetLoaded_NoNodeHostCheck(s, from) ==
  IF from = FromNodeHost THEN [panic |-> PanicLoadedFromNodeHost, o |-> s]
  ELSE IF from = FromStepWorker
       THEN [panic |-> NoPanic, o |-> [s EXCEPT !.loadedByStepWorker = TRUE]]
  ELSE IF from = FromCommitWorker
       THEN [panic |-> NoPanic, o |-> [s EXCEPT !.loadedByCommitWorker = TRUE]]
  ELSE IF from = FromSnapshotWorker
       THEN [panic |-> NoPanic, o |-> [s EXCEPT !.loadedBySnapshotWorker = TRUE]]
  ELSE [panic |-> PanicUnknownFrom, o |-> s]

\* SetLoaded: result is [panic, o]; on panic the record is untouched.
SetLoaded(s, from) ==
  IF s.offloadedFromNodeHost /\ from \in Workers
  THEN [panic |-> PanicLoadedAfterOffloaded, o |-> s]
  ELSE IF from = FromNodeHost THEN [panic |-> PanicLoadedFromNodeHost, o |-> s]
  ELSE IF from = FromStepWorker
       THEN [panic |-> NoPanic, o |-> [s EXCEPT !.loadedByStepWorker = TRUE]]
  ELSE IF from = FromCommitWorker
       THEN [panic |-> NoPanic, o |-> [s EXCEPT !.loadedByCommitWorker = TRUE]]
  ELSE IF from = FromSnapshotWorker
       THEN [panic |-> NoPanic, o |-> [s EXCEPT !.loadedBySnapshotWorker = TRUE]]
  ELSE [panic |-> PanicUnknownFrom, o |-> s]

\* first if-chain of SetOffloaded: mark the named component
MarkOffloaded(s, from) ==
  IF from = FromNodeHost THEN [s EXCEPT !.offloadedFromNodeHost = TRUE]
  ELSE IF from = FromStepWorker THEN [s EXCEPT !.offloadedFromStepWorker = TRUE]
  ELSE IF from = FromCommitWorker THEN [s EXCEPT !.offloadedFromCommitWorker = TRUE]
  ELSE [s EXCEPT !.offloadedFromSnapshotWorker = TRUE]

\* second block that marks every worker, loaded or not
MarkNeverLoaded_MarkAll(s, from) ==
  IF from = FromNodeHost
  THEN [s EXCEPT !.offloadedFromStepWorker = TRUE,
                 !.offloadedFromCommitWorker = TRUE,
                 !.offloadedFromSnapshotWorker = TRUE]
  ELSE s

\* second block left out
MarkNeverLoaded_Skip(s, from) == s

\* second block: node-host offload marks every never-loaded worker
MarkNeverLoaded(s, from) ==
  IF from = FromNodeHost
  THEN [s EXCEPT
          !.offloadedFromStepWorker =
              IF ~s.loadedByStepWorker THEN TRUE ELSE @,
          !.offloadedFromCommitWorker =
              IF ~s.loadedByCommitWorker THEN TRUE ELSE @,
          !.offloadedFromSnapshotWorker =
              IF ~s.loadedBySnapshotWorker THEN TRUE ELSE @]
  ELSE s

AllOffloaded(s) ==
  /\ s.offloadedFromNodeHost
  /\ s.offloadedFromCommitWorker
  /\ s.offloadedFromSnapshotWorker
  /\ s.offloadedFromStepWorker

\* completeness check that forgets the step worker
MarkReady_SkipStepWorker(s) ==
  IF /\ s.offloadedFromNodeHost
     /\ s.offloadedFromCommitWorker
     /\ s.offloadedFromSnapshotWorker
  THEN [s EXCEPT !.readyToDestroy = TRUE] ELSE s

\* third block: the completeness check
MarkReady(s) ==
  IF AllOffloaded(s) THEN [s EXCEPT !.readyToDestroy = TRUE] ELSE s

SetOffloaded(s, from) ==
  IF from \notin {FromNodeHost, FromStepWorker, FromCommitWorker, FromSnapshotWorker}
  THEN [panic |-> PanicUnknownFrom, o |-> s]
  ELSE [panic |-> NoPanic, o |-> MarkReady(MarkNeverLoaded(MarkOffloaded(s, from), from))]

(* ------------------------------ RWMutex --------------------------------- *)
\* a Lock that does not wait for the readers to leave
CanLock_IgnoreReaders == mu.w = NoOne

CanLock == mu.w = NoOne /\ mu.r = {}
\* a read lock granted while a writer holds the mutex
CanRLock_IgnoreWriter == TRUE
CanRLock == mu.w = NoOne

(* ------------------------------ Session -------------------------------- *)
\* History maps are functions whose domain is a subset of SeriesIDs
EmptyHistory == <<>>

\* the absent session: a nil *Session, or no entry in the collection
NoSession == [ClientID |-> -1, RespondedUpTo |-> 0, History |-> EmptyHistory]

newSession(id) == [ClientID |-> id, RespondedUpTo |-> 0, History |-> EmptyHistory]

hasResponded(ses, id) == id <= ses.RespondedUpTo

getResponse(ses, id) ==
  IF id \in DOMAIN ses.History
  THEN [v |-> ses.History[id], ok |-> TRUE]
  ELSE [v |-> 0, ok |-> FALSE]

PanicDuplicatedResponse == "adding a duplicated response"

\* recordResult: fatal if a result for the series ID is already retained
addResponse(ses, id, result) ==
  IF id \in DOMAIN ses.History
  THEN [panic |-> PanicDuplicatedResponse, s |-> ses]
  ELSE [panic |-> NoPanic,
        s |-> [ses EXCEPT !.History =
                 [k \in DOMAIN ses.History \cup {id} |->
                    IF k = id THEN result ELSE ses.History[k]]]]

\* advanceRespondedTo: raises the high-water mark, never lowers it, and
\* prunes the retained results at or below the new mark
clearTo(ses, to) ==
  IF to <= ses.RespondedUpTo THEN ses
  ELSE [ses EXCEPT !.RespondedUpTo = to,
                   !.History = [k \in {j \in DOMAIN ses.History : j > to} |->
                                  ses.History[k]]]

(* --------------------------- lrusession --------------------------------- *)
getSession(ss, id) == [es |-> ss[id], ok |-> ss[id] # NoSession]

addSession(ss, id, ses) == [ss EXCEPT ![id] = ses]

delSession(ss, id) == [ss EXCEPT ![id] = NoSession]

(* -------------------------- SessionManager ------------------------------ *)
\* raises the high-water mark and prunes nothing
UpdateRespondedTo_SetDirect(ses, respondedTo) ==
  IF respondedTo <= ses.RespondedUpTo THEN ses
  ELSE [ses EXCEPT !.RespondedUpTo = respondedTo]

UpdateRespondedTo(ses, respondedTo) == clearTo(ses, respondedTo)

\* a registration that replaces the session of a known client
RegisterClientID_Overwrite(ss, clientID) ==
  [ret |-> clientID, sessions |-> addSession(ss, clientID, newSession(clientID))]

RegisterClientID(ss, clientID) ==
  IF getSession(ss, clientID).ok
  THEN [ret |-> 0, sessions |-> ss]
  ELSE [ret |-> clientID,
        sessions |-> addSession(ss, clientID, newSession(clientID))]

UnregisterClientID(ss, clientID) ==
  IF ~getSession(ss, clientID).ok
  THEN [ret |-> 0, sessions |-> ss]
  ELSE [ret |-> clientID, sessions |-> delSession(ss, clientID)]

ClientRegistered(ss, clientID) == getSession(ss, clientID)

\* a dedup check that looks at the retained results before the high-water mark
UpdateRequired_HistoryFirst(ses, seriesID) ==
  IF getResponse(ses, seriesID).ok
  THEN <<getResponse(ses, seriesID).v, FALSE, FALSE>>
  ELSE IF hasResponded(ses, seriesID) THEN <<0, TRUE, FALSE>>
  ELSE <<0, FALSE, TRUE>>

\* returns (request result, responded before, update required)
UpdateRequired(ses, seriesID) ==
  IF hasResponded(ses, seriesID) THEN <<0, TRUE, FALSE>>
  ELSE IF getResponse(ses, seriesID).ok
       THEN <<getResponse(ses, seriesID).v, FALSE, FALSE>>
  ELSE <<0, FALSE, TRUE>>

PanicAlreadyHasResponse == "already has response in session"
PanicResultsLen == "len(results) != 1"

MustHaveClientSeries(ses, seriesID) ==
  IF getResponse(ses, seriesID).ok THEN PanicAlreadyHasResponse ELSE NoPanic

AddResponse(ses, seriesID, result) == addResponse(ses, seriesID, result)

(* ----------------------- adapter: IStateMachine ------------------------- *)
\* number of entries ds.sm.Update may hand back for a one-entry batch:
\* RegularStateMachine returns its input, the concurrent variant returns
\* whatever the user state machine returns
AdapterUpdateLens == IF concurrent THEN {1, 2} ELSE {1}

(* ------------------- NativeStateMachine.Update -------------------------- *)
\* Update without the leading "already has response" check
Update_NoPrecheck(ses, seriesID, result, n) ==
  IF n # 1
  THEN [panic |-> PanicResultsLen, invoked |-> TRUE, s |-> ses, ret |-> 0]
  ELSE IF ses # NoSession
  THEN LET a == addResponse(ses, seriesID, result) IN
         [panic |-> a.panic, invoked |-> TRUE, s |-> a.s,
          ret |-> IF a.panic = NoPanic THEN result ELSE 0]
  ELSE [panic |-> NoPanic, invoked |-> TRUE, s |-> ses, ret |-> result]

\* Update that forgets to record the result in the session
Update_NoRecord(ses, seriesID, result, n) ==
  IF ses # NoSession /\ getResponse(ses, seriesID).ok
  THEN [panic |-> PanicAlreadyHasResponse, invoked |-> FALSE, s |-> ses, ret |-> 0]
  ELSE IF n # 1
  THEN [panic |-> PanicResultsLen, invoked |-> TRUE, s |-> ses, ret |-> 0]
  ELSE [panic |-> NoPanic, invoked |-> TRUE, s |-> ses, ret |-> result]

\* ses is the session argument (NoSession for nil); result and n are what
\* ds.sm.Update hands back: the entry's Result and len(results)
Update(ses, seriesID, result, n) ==
  IF ses # NoSession /\ getResponse(ses, seriesID).ok
  THEN [panic |-> PanicAlreadyHasResponse, invoked |-> FALSE, s |-> ses, ret |-> 0]
  ELSE IF n # 1
  THEN [panic |-> PanicResultsLen, invoked |-> TRUE, s |-> ses, ret |-> 0]
  ELSE IF ses # NoSession
  THEN LET a == addResponse(ses, seriesID, result) IN
         [panic |-> a.panic, invoked |-> TRUE, s |-> a.s,
          ret |-> IF a.panic = NoPanic THEN result ELSE 0]
  ELSE [panic |-> NoPanic, invoked |-> TRUE, s |-> ses, ret |-> result]

\* the client of a call that passes a nil session
NilClient == -1
NoOp == [op |-> "none", client |-> NilClient, arg |-> 0, invoked |-> FALSE]

(* ------------------------------- Init ----------------------------------- *)
\* what ds.sm.Lookup may hand back: RegularStateMachine.Lookup always
\* returns a nil error, the concurrent variant hands back whatever the user
\* state machine returns
AdapterLookup ==
  IF concurrent THEN {<<"v", "nil">>, <<"nil", "ErrLookup">>}
  ELSE {<<"v", "nil">>}

\* no snapshot call has been made yet
NoPrepare == [asked |-> FALSE, ret |-> <<"none", "none">>]
NoSave == [pc |-> "idle", ctx |-> "nil", len |-> 0, n |-> 0, werr |-> "nil",
           smsz |-> 0, sz |-> 0, aerr |-> "nil", log |-> <<>>,
           header |-> <<>>, ret |-> <<0, "none">>]
NoRecover == [pc |-> "idle", log |-> <<>>, failed |-> "none", err |-> "nil",
              closes |-> 0, ret |-> "none"]

IdleLookup == [pc |-> "idle", saw |-> FALSE, called |-> FALSE, ret |-> <<"none", "none">>]

Init ==
  /\ o = NewOffloadedStatus
  /\ mu = [w |-> NoOne, r |-> {}]
  /\ wpc = "none"
  /\ lk = [t \in LookupThreads |-> IdleLookup]
  /\ closeCount = 0
  /\ lastReport = [w \in Workers |-> "none"]
  /\ sessions = [c \in ClientIDs |-> NoSession]
  /\ lastOp = NoOp
  /\ applied = [c \in ClientIDs |-> [i \in SeriesIDs |-> {}]]
  /\ twice = FALSE
  /\ advanced = [c \in ClientIDs |-> 0]
  /\ concurrent \in BOOLEAN
  /\ prep = NoPrepare
  /\ save = NoSave
  /\ rec = NoRecover
  /\ fatal = NoPanic

(* ------------------- NativeStateMachine.Offloaded ----------------------- *)
\* ds.mu.Lock()
OffloadedLock(from) ==
  /\ fatal = NoPanic /\ CanLock
  /\ mu' = [mu EXCEPT !.w = from]
  /\ wpc' = "offloaded_locked"
  /\ UNCHANGED <<o, lk, closeCount, lastReport, fatal, sessionVars, snapVars>>

\* ds.SetOffloaded(from); a panic runs the deferred Unlock and aborts
OffloadedSetOffloaded ==
  /\ fatal = NoPanic /\ wpc = "offloaded_locked"
  /\ LET r == SetOffloaded(o, mu.w) IN
       IF r.panic # NoPanic
       THEN /\ fatal' = r.panic
            /\ mu' = [mu EXCEPT !.w = NoOne]
            /\ wpc' = "none"
            /\ UNCHANGED <<o, lastReport>>
       ELSE /\ o' = r.o
            /\ wpc' = "offloaded_set"
            /\ lastReport' = IF mu.w \in Workers
                             THEN [lastReport EXCEPT ![mu.w] = "offloaded"]
                             ELSE lastReport
            /\ UNCHANGED <<mu, fatal>>
  /\ UNCHANGED <<lk, closeCount, sessionVars, snapVars>>

\* destruction branch without the !ds.Destroyed() test
MustDestroy_IgnoreDestroyed(s) == ReadyToDestroy(s)

\* the guard of the destruction branch
MustDestroy(s) == ReadyToDestroy(s) /\ ~Destroyed(s)

\* ds.closeStateMachine()
OffloadedClose ==
  /\ fatal = NoPanic /\ wpc = "offloaded_set"
  /\ MustDestroy(o)
  /\ closeCount' = closeCount + 1
  /\ wpc' = "closing"
  /\ UNCHANGED <<o, mu, lk, lastReport, fatal, sessionVars, snapVars>>

\* ds.SetDestroyed()
OffloadedSetDestroyed ==
  /\ fatal = NoPanic /\ wpc = "closing"
  /\ o' = SetDestroyed(o)
  /\ wpc' = "destroyed_set"
  /\ UNCHANGED <<mu, lk, closeCount, lastReport, fatal, sessionVars, snapVars>>

\* deferred ds.mu.Unlock()
OffloadedUnlock ==
  /\ fatal = NoPanic
  /\ \/ wpc = "offloaded_set" /\ ~MustDestroy(o)
     \/ wpc = "destroyed_set"
  /\ mu' = [mu EXCEPT !.w = NoOne]
  /\ wpc' = "none"
  /\ UNCHANGED <<o, lk, closeCount, lastReport, fatal, sessionVars, snapVars>>

(* --------------------- NativeStateMachine.Loaded ------------------------ *)
LoadedLock(from) ==
  /\ fatal = NoPanic /\ CanLock
  /\ mu' = [mu EXCEPT !.w = from]
  /\ wpc' = "loaded_locked"
  /\ UNCHANGED <<o, lk, closeCount, lastReport, fatal, sessionVars, snapVars>>

\* ds.SetLoaded(from); a panic runs the deferred Unlock and aborts
LoadedSetLoaded ==
  /\ fatal = NoPanic /\ wpc = "loaded_locked"
  /\ LET r == SetLoaded(o, mu.w) IN
       IF r.panic # NoPanic
       THEN /\ fatal' = r.panic
            /\ mu' = [mu EXCEPT !.w = NoOne]
            /\ wpc' = "none"
            /\ UNCHANGED <<o, lastReport>>
       ELSE /\ o' = r.o
            /\ wpc' = "loaded_set"
            /\ lastReport' = [lastReport EXCEPT ![mu.w] = "loaded"]
            /\ UNCHANGED <<mu, fatal>>
  /\ UNCHANGED <<lk, closeCount, sessionVars, snapVars>>

LoadedUnlock ==
  /\ fatal = NoPanic /\ wpc = "loaded_set"
  /\ mu' = [mu EXCEPT !.w = NoOne]
  /\ wpc' = "none"
  /\ UNCHANGED <<o, lk, closeCount, lastReport, fatal, sessionVars, snapVars>>

(* --------------------- NativeStateMachine.Lookup ------------------------ *)
\* ds.mu.RLock(); saw records the destroyed flag at the moment the lookup starts
LookupRLock(t) ==
  /\ fatal = NoPanic /\ lk[t].pc = "idle"
  /\ CanRLock
  /\ mu' = [mu EXCEPT !.r = @ \cup {t}]
  /\ lk' = [lk EXCEPT ![t] = [pc |-> "rlocked", saw |-> Destroyed(o),
                              called |-> FALSE, ret |-> <<"none", "none">>]]
  /\ UNCHANGED <<o, wpc, closeCount, lastReport, fatal, sessionVars, snapVars>>

\* a Lookup that never looks at the destroyed flag
LookupSeesDestroyed_Never(s) == FALSE

\* the branch taken on ds.Destroyed(): TRUE returns ErrClusterClosed
LookupSeesDestroyed(s) == Destroyed(s)

\* if ds.Destroyed() { RUnlock; return nil, ErrClusterClosed } else enter sm.Lookup
LookupCheck(t) ==
  /\ fatal = NoPanic /\ lk[t].pc = "rlocked"
  /\ IF LookupSeesDestroyed(o)
     THEN /\ mu' = [mu EXCEPT !.r = @ \ {t}]
          /\ lk' = [lk EXCEPT ![t].pc = "idle",
                              ![t].ret = <<"nil", ErrClusterClosed>>]
     ELSE /\ lk' = [lk EXCEPT ![t].pc = "in_lookup", ![t].called = TRUE]
          /\ UNCHANGED mu
  /\ UNCHANGED <<o, wpc, closeCount, lastReport, fatal, sessionVars, snapVars>>

\* v, err := ds.sm.Lookup(data) returns; RUnlock; return v, err
LookupReturn(t) ==
  /\ fatal = NoPanic /\ lk[t].pc = "in_lookup"
  /\ \E res \in AdapterLookup :
       lk' = [lk EXCEPT ![t].pc = "idle", ![t].ret = res]
  /\ mu' = [mu EXCEPT !.r = @ \ {t}]
  /\ UNCHANGED <<o, wpc, closeCount, lastReport, fatal, sessionVars, snapVars>>

Next ==
  \/ \E from \in Froms : OffloadedLock(from)
  \/ OffloadedSetOffloaded
  \/ OffloadedClose
  \/ OffloadedSetDestroyed
  \/ OffloadedUnlock
  \/ \E from \in Froms : LoadedLock(from)
  \/ LoadedSetLoaded
  \/ LoadedUnlock
  \/ \E t \in LookupThreads : LookupRLock(t)
  \/ \E t \in LookupThreads : LookupCheck(t)
  \/ \E t \in LookupThreads : LookupReturn(t)

Spec == Init /\ [][Next]_vars

(* ----------------- calls into the session manager ---------------------- *)
\* The commit pipeline serialises these calls.  A session argument is the
\* pointer ClientRegistered returned for a registered client.
Registered(c) == ClientRegistered(sessions, c).ok

Called(op, c, arg, inv) == [op |-> op, client |-> c, arg |-> arg, invoked |-> inv]

DoRegisterClientID(c) ==
  /\ fatal = NoPanic
  /\ sessions' = RegisterClientID(sessions, c).sessions
  /\ lastOp' = Called("RegisterClientID", c, 0, FALSE)
  /\ UNCHANGED <<lifecycleVars, snapVars, applied, twice, advanced, fatal>>

DoUnregisterClientID(c) ==
  /\ fatal = NoPanic
  /\ sessions' = UnregisterClientID(sessions, c).sessions
  /\ lastOp' = Called("UnregisterClientID", c, 0, FALSE)
  /\ applied' = [applied EXCEPT ![c] = [i \in SeriesIDs |-> {}]]
  /\ advanced' = [advanced EXCEPT ![c] = 0]
  /\ UNCHANGED <<lifecycleVars, snapVars, twice, fatal>>

DoUpdateRequired(c, seriesID) ==
  /\ fatal = NoPanic
  /\ Registered(c)
  /\ lastOp' = Called("UpdateRequired", c, seriesID, FALSE)
  /\ UNCHANGED <<lifecycleVars, snapVars, sessions, applied, twice, advanced, fatal>>

DoUpdateRespondedTo(c, respondedTo) ==
  /\ fatal = NoPanic
  /\ Registered(c)
  /\ sessions' = [sessions EXCEPT ![c] = UpdateRespondedTo(@, respondedTo)]
  /\ lastOp' = Called("UpdateRespondedTo", c, 0, FALSE)
  /\ advanced' = [advanced EXCEPT ![c] = IF respondedTo > @ THEN respondedTo ELSE @]
  /\ UNCHANGED <<lifecycleVars, snapVars, applied, twice, fatal>>

\* what ds.sm.Update hands back: the entry's Result and len(results)
AdapterUpdate ==
  {<<result, 1>> : result \in UpdateResults} \cup {<<0, n>> : n \in AdapterUpdateLens \ {1}}

\* Update(session, seriesID, index, term, data) on a registered session
DoUpdate(c, seriesID) ==
  /\ fatal = NoPanic
  /\ Registered(c)
  /\ \E out \in AdapterUpdate :
       LET r == Update(sessions[c], seriesID, out[1], out[2]) IN
         /\ sessions' = [sessions EXCEPT ![c] = r.s]
         /\ lastOp' = Called("Update", c, seriesID, r.invoked)
         /\ fatal' = r.panic
  /\ UNCHANGED <<lifecycleVars, snapVars, applied, twice, advanced>>

\* Update(nil, ...): an entry that belongs to no client session
DoUpdateNoSession ==
  /\ fatal = NoPanic
  /\ \E out \in AdapterUpdate :
       LET r == Update(NoSession, 0, out[1], out[2]) IN
         /\ lastOp' = Called("Update", NilClient, 0, r.invoked)
         /\ fatal' = r.panic
  /\ UNCHANGED <<lifecycleVars, snapVars, sessions, applied, twice, advanced>>

NextSession ==
  \/ \E c \in ClientIDs : DoRegisterClientID(c)
  \/ \E c \in ClientIDs : DoUnregisterClientID(c)
  \/ \E c \in ClientIDs, i \in SeriesIDs : DoUpdateRequired(c, i)
  \/ \E c \in ClientIDs, v \in RespondedTos : DoUpdateRespondedTo(c, v)
  \/ \E c \in ClientIDs, i \in SeriesIDs : DoUpdate(c, i)
  \/ DoUpdateNoSession

SpecSession == Init /\ [][NextSession]_vars

(* ------------- the commit pipeline's dedup protocol --------------------- *)
\* the last call was a dedup check on (c, seriesID) that returned
\* "update required"
Checked(c, seriesID) ==
  /\ lastOp.op = "UpdateRequired"
  /\ lastOp.client = c /\ lastOp.arg = seriesID
  /\ UpdateRequired(sessions[c], seriesID)[3]

\* Update called by a caller that has just been told the update is required;
\* applied and twice record the adapter invocations per (client, series)
DoCheckedUpdate(c, seriesID) ==
  /\ fatal = NoPanic
  /\ Registered(c)
  /\ Checked(c, seriesID)
  /\ \E out \in AdapterUpdate :
       LET r == Update(sessions[c], seriesID, out[1], out[2]) IN
         /\ sessions' = [sessions EXCEPT ![c] = r.s]
         /\ lastOp' = Called("Update", c, seriesID, r.invoked)
         /\ fatal' = r.panic
         /\ applied' = IF r.invoked /\ applied[c][seriesID] = {}
                       THEN [applied EXCEPT ![c][seriesID] = {out[1]}]
                       ELSE applied
         /\ twice' = IF r.invoked /\ applied[c][seriesID] # {}
                      THEN TRUE ELSE twice
  /\ UNCHANGED <<lifecycleVars, snapVars, advanced>>

NextProtocol ==
  \/ \E c \in ClientIDs : DoRegisterClientID(c)
  \/ \E c \in ClientIDs : DoUnregisterClientID(c)
  \/ \E c \in ClientIDs, i \in SeriesIDs : DoUpdateRequired(c, i)
  \/ \E c \in ClientIDs, v \in RespondedTos : DoUpdateRespondedTo(c, v)
  \/ \E c \in ClientIDs, i \in SeriesIDs : DoCheckedUpdate(c, i)
  \/ DoUpdateNoSession

SpecProtocol == Init /\ [][NextProtocol]_vars

(* --------------------------- snapshot save ------------------------------ *)
\* io.ErrShortWrite
ErrShortWrite == "short write"

PanicNotConcurrent == "state machine is not capable of concurrent snapshotting"
PanicRegularPrepare == "PrepareSnapshot called on RegularStateMachine"
PanicCtxNotNil == "ctx is not nil"

\* what writer.Write(session) may return for len(session) = len: (n, err)
WriterWrite(len) ==
  {<<len, "nil">>} \cup {<<k, "nil">> : k \in 0..(len - 1)}
                  \cup {<<k, "ErrWrite">> : k \in 0..len}

\* what the user state machine's SaveSnapshot may return: (size, err)
UserSaveSnapshot ==
  {<<sz, "nil">> : sz \in 0..MaxLen} \cup {<<0, "ErrUserSave">>, <<MaxLen, "ErrUserSave">>}

\* what writer.SaveHeader may return
WriterSaveHeader == {"nil", "ErrSaveHeader"}

\* what the user state machine's PrepareSnapshot may return: (ctx, err)
UserPrepareSnapshot == {<<"ctx", "nil">>, <<"nil", "ErrPrepare">>}

ConcurrentSnapshot == concurrent

\* RegularStateMachine.PrepareSnapshot / ConcurrentStateMachine.PrepareSnapshot
AdapterPrepareSnapshot ==
  IF concurrent THEN [panic |-> NoPanic, user |-> TRUE]
  ELSE [panic |-> PanicRegularPrepare, user |-> FALSE]

\* NativeStateMachine.PrepareSnapshot: which panic (if any), and whether the
\* user state machine is asked
PrepareSnapshot ==
  IF ~ConcurrentSnapshot THEN [panic |-> PanicNotConcurrent, user |-> FALSE]
  ELSE AdapterPrepareSnapshot

\* a RegularStateMachine.SaveSnapshot that accepts any context
AdapterSaveSnapshot_AnyCtx(ctx) == [panic |-> NoPanic, user |-> TRUE]

\* RegularStateMachine.SaveSnapshot / ConcurrentStateMachine.SaveSnapshot:
\* which panic (if any), and whether the user state machine is invoked
AdapterSaveSnapshot(ctx) ==
  IF concurrent THEN [panic |-> NoPanic, user |-> TRUE]
  ELSE IF ctx # "nil" THEN [panic |-> PanicCtxNotNil, user |-> FALSE]
  ELSE [panic |-> NoPanic, user |-> TRUE]

\* the session write without the short-write test
AfterSessionWrite_NoShortTest(len, n, err) ==
  IF err # "nil" THEN [done |-> TRUE, ret |-> <<0, err>>]
  ELSE [done |-> FALSE, ret |-> <<0, "none">>]

\* SaveSnapshot after writer.Write(session) returned (n, err)
AfterSessionWrite(len, n, err) ==
  IF err # "nil" THEN [done |-> TRUE, ret |-> <<0, err>>]
  ELSE IF n # len THEN [done |-> TRUE, ret |-> <<0, ErrShortWrite>>]
  ELSE [done |-> FALSE, ret |-> <<0, "none">>]

\* a total that leaves the header out
SaveReturn_NoHeader(smsz, sz) == sz + smsz

\* the value of a successful SaveSnapshot
SaveReturn(smsz, sz) == sz + smsz + SnapshotHeaderSize

DoPrepareSnapshot ==
  /\ fatal = NoPanic
  /\ LET r == PrepareSnapshot IN
       /\ fatal' = r.panic
       /\ IF r.user
          THEN \E out \in UserPrepareSnapshot : prep' = [asked |-> TRUE, ret |-> out]
          ELSE prep' = [asked |-> FALSE, ret |-> <<"none", "none">>]
  /\ UNCHANGED <<lifecycleVars, sessionVars, concurrent, save, rec>>

\* SaveSnapshot(ssctx, writer, session, collection) up to the session write
SaveSnapshotWrite(ctx, len) ==
  /\ fatal = NoPanic /\ save.pc = "idle"
  /\ \E out \in WriterWrite(len) :
       LET r == AfterSessionWrite(len, out[1], out[2]) IN
         save' = [NoSave EXCEPT !.pc = IF r.done THEN "idle" ELSE "adapter",
                                !.ctx = ctx, !.len = len,
                                !.n = out[1], !.werr = out[2],
                                !.smsz = IF r.done THEN 0 ELSE len,
                                !.log = <<"Write">>, !.ret = r.ret]
  /\ UNCHANGED <<lifecycleVars, sessionVars, concurrent, prep, rec, fatal>>

\* sz, err := ds.sm.SaveSnapshot(ssctx, writer, collection, ds.done)
SaveSnapshotAdapter ==
  /\ fatal = NoPanic /\ save.pc = "adapter"
  /\ LET a == AdapterSaveSnapshot(save.ctx) IN
       IF ~a.user
       THEN /\ fatal' = a.panic
            /\ save' = [save EXCEPT !.pc = "idle",
                                    !.log = Append(@, "sm.SaveSnapshot")]
       ELSE /\ \E out \in UserSaveSnapshot :
                 save' = [save EXCEPT
                            !.pc = IF out[2] # "nil" THEN "idle" ELSE "header",
                            !.log = @ \o <<"sm.SaveSnapshot", "user.SaveSnapshot">>,
                            !.sz = IF out[2] # "nil" THEN 0 ELSE out[1],
                            !.aerr = out[2],
                            !.ret = IF out[2] # "nil" THEN <<0, out[2]>> ELSE @]
            /\ UNCHANGED fatal
  /\ UNCHANGED <<lifecycleVars, sessionVars, concurrent, prep, rec>>

\* writer.SaveHeader(smsz, sz) and the return; header holds (smsz, sz)
SaveSnapshotHeader ==
  /\ fatal = NoPanic /\ save.pc = "header"
  /\ \E err \in WriterSaveHeader :
       save' = [save EXCEPT
                  !.pc = "idle",
                  !.log = Append(@, IF err = "nil" THEN "SaveHeader"
                                    ELSE "SaveHeader failed"),
                  !.header = IF err = "nil" THEN <<save.smsz, save.sz>> ELSE @,
                  !.ret = IF err # "nil" THEN <<0, err>>
                          ELSE <<SaveReturn(save.smsz, save.sz), "nil">>]
  /\ UNCHANGED <<lifecycleVars, sessionVars, concurrent, prep, rec, fatal>>

(* -------------------------- snapshot recovery --------------------------- *)
PanicInvalidHeader == "invalid snapshot header"
PanicInvalidPayload == "invalid snapshot payload"

\* the stage that follows a stage of RecoverFromSnapshot that succeeded
StageAfter(stage) ==
  CASE stage = "NewSnapshotReader"       -> "GetHeader"
    [] stage = "GetHeader"               -> "ValidateHeader"
    [] stage = "ValidateHeader"          -> "load"
    [] stage = "load"                    -> "sm.RecoverFromSnapshot"
    [] stage = "sm.RecoverFromSnapshot"  -> "ValidatePayload"
    [] OTHER                             -> "exit"

\* the stages that return an error, and the error each may return
StageError(stage) ==
  CASE stage = "GetHeader"              -> "ErrGetHeader"
    [] stage = "load"                   -> "ErrLoadSessions"
    [] stage = "sm.RecoverFromSnapshot" -> "ErrUserRecover"
    [] OTHER                            -> "nil"

\* the validators return nothing: they return or panic
StagePanic(stage) ==
  IF stage = "ValidateHeader" THEN PanicInvalidHeader ELSE PanicInvalidPayload

\* session collections a snapshot's session section may hold
RestoredSessions ==
  {[c \in ClientIDs |-> NoSession], [c \in ClientIDs |-> newSession(c)]}

\* a reader that is closed on the successful path only
ClosesOnExit_SuccessOnly(failed) == IF failed = "none" THEN 1 ELSE 0

\* the deferred function closes the reader on every exit after the open
ClosesOnExit(failed) == 1

\* the deferred function: err = reader.Close() is what the caller receives
RecoverReturn(err, closeErr) == closeErr

\* reader, err := NewSnapshotReader(fp); a failure returns before the defer
RecoverOpen ==
  /\ fatal = NoPanic /\ rec.pc = "idle"
  /\ \/ rec' = [NoRecover EXCEPT !.pc = StageAfter("NewSnapshotReader"),
                                 !.log = <<"NewSnapshotReader">>]
     \/ rec' = [NoRecover EXCEPT !.log = <<"NewSnapshotReader">>,
                                 !.failed = "NewSnapshotReader",
                                 !.err = "ErrOpen", !.ret = "ErrOpen"]
  /\ UNCHANGED <<lifecycleVars, sessionVars, concurrent, prep, save, fatal>>

\* GetHeader, ds.sessions.load, ds.sm.RecoverFromSnapshot: succeed, or fail
\* and return the error
RecoverStage ==
  /\ fatal = NoPanic
  /\ rec.pc \in {"GetHeader", "load", "sm.RecoverFromSnapshot"}
  /\ \/ /\ rec' = [rec EXCEPT !.pc = StageAfter(rec.pc), !.log = Append(@, rec.pc)]
        /\ IF rec.pc = "load"
           THEN \E ss \in RestoredSessions : sessions' = ss
           ELSE UNCHANGED sessions
     \/ /\ rec' = [rec EXCEPT !.pc = "exit", !.log = Append(@, rec.pc),
                               !.failed = rec.pc, !.err = StageError(rec.pc)]
        /\ UNCHANGED sessions
  /\ UNCHANGED <<lifecycleVars, lastOp, applied, twice, advanced,
                 concurrent, prep, save, fatal>>

\* reader.ValidateHeader(header), reader.ValidatePayload(header): return, or
\* panic; the deferred Close runs while the panic unwinds
RecoverValidate ==
  /\ fatal = NoPanic
  /\ rec.pc \in {"ValidateHeader", "ValidatePayload"}
  /\ \/ /\ rec' = [rec EXCEPT !.pc = StageAfter(rec.pc), !.log = Append(@, rec.pc)]
        /\ UNCHANGED fatal
     \/ /\ rec' = [rec EXCEPT !.pc = "idle", !.log = @ \o <<rec.pc, "Close">>,
                               !.failed = rec.pc,
                               !.closes = @ + ClosesOnExit(rec.pc)]
        /\ fatal' = StagePanic(rec.pc)
  /\ UNCHANGED <<lifecycleVars, sessionVars, concurrent, prep, save>>

\* the deferred function runs and RecoverFromSnapshot returns
RecoverExit ==
  /\ fatal = NoPanic /\ rec.pc = "exit"
  /\ \E closeErr \in {"nil", "ErrClose"} :
       rec' = [rec EXCEPT !.pc = "idle", !.log = Append(@, "Close"),
                          !.closes = @ + ClosesOnExit(rec.failed),
                          !.ret = RecoverReturn(rec.err, closeErr)]
  /\ UNCHANGED <<lifecycleVars, sessionVars, concurrent, prep, save, fatal>>

NextSnapshot ==
  \/ DoPrepareSnapshot
  \/ \E ctx \in {"nil", "ctx"}, len \in 0..MaxLen : SaveSnapshotWrite(ctx, len)
  \/ SaveSnapshotAdapter
  \/ SaveSnapshotHeader
  \/ RecoverOpen
  \/ RecoverStage
  \/ RecoverValidate
  \/ RecoverExit

SpecSnapshot == Init /\ [][NextSnapshot]_vars

(* ======================= properties: lifecycle ========================== *)

\* C1: in every reachable state readyToDestroy is true if and only if the
\* four offloaded-from flags (node-host, step, commit, snapshot) are all true.
C1_ReadyIffAllOffloaded ==
  o.readyToDestroy <=> ( /\ o.offloadedFromNodeHost
                         /\ o.offloadedFromStepWorker
                         /\ o.offloadedFromCommitWorker
                         /\ o.offloadedFromSnapshotWorker )

\* ready after two workers loaded and later offloaded
C1_Witness ==
  /\ o.readyToDestroy
  /\ o.loadedByStepWorker /\ o.loadedByCommitWorker
  /\ ~o.loadedBySnapshotWorker

\* C2: Close() is invoked at most once, exactly once whenever all four
\* offloaded-from flags are true and no Offloaded call is still running, and
\* destroyed never goes back to false.
C2_CloseExactlyOnce ==
  /\ [](closeCount <= 1)
  /\ []( ( /\ o.offloadedFromNodeHost /\ o.offloadedFromStepWorker
           /\ o.offloadedFromCommitWorker /\ o.offloadedFromSnapshotWorker
           /\ mu.w = NoOne )
         => (closeCount = 1 /\ o.destroyed) )
  /\ [][o.destroyed => o'.destroyed]_vars

\* an Offloaded call repeated after destruction has passed SetOffloaded
C2_Witness ==
  /\ o.destroyed /\ closeCount = 1
  /\ wpc = "offloaded_set"

\* C3: whenever Close() is invoked, every worker either never reported
\* Loaded or its most recent report is Offloaded.
C3_NoCloseWhileLoaded ==
  wpc = "closing" => \A w \in Workers : lastReport[w] # "loaded"

\* C4: a finished Lookup that started with destroyed true returned
\* ErrClusterClosed without invoking the adapter; one that started with
\* destroyed false invoked the adapter and returned what the adapter returned.
C4_LookupAfterDestroy ==
  \A t \in LookupThreads :
    /\ (lk[t].pc = "in_lookup") => ~lk[t].saw
    /\ (lk[t].pc = "idle" /\ lk[t].ret # <<"none", "none">>) =>
         IF lk[t].saw
         THEN lk[t].ret = <<"nil", ErrClusterClosed>> /\ ~lk[t].called
         ELSE lk[t].called /\ lk[t].ret \in AdapterLookup

\* one Lookup was refused after destruction, another was served before it
C4_Witness ==
  /\ o.destroyed
  /\ \E t \in LookupThreads : lk[t].pc = "idle" /\ lk[t].saw
                               /\ lk[t].ret = <<"nil", ErrClusterClosed>>
  /\ \E t \in LookupThreads : lk[t].pc = "idle" /\ lk[t].called
                               /\ lk[t].ret = <<"v", "nil">>

\* C5: the adapter's Lookup is never in progress while Close() runs and
\* never in progress once Close() has been invoked.
C5_LookupExcludesClose ==
  /\ (wpc = "closing") => \A t \in LookupThreads : lk[t].pc # "in_lookup"
  /\ (closeCount >= 1) => \A t \in LookupThreads : lk[t].pc # "in_lookup"

\* two Lookup calls are inside the adapter's Lookup at the same time, after
\* node-host has offloaded
C5_Witness ==
  /\ o.offloadedFromNodeHost
  /\ \E t1, t2 \in LookupThreads :
       t1 # t2 /\ lk[t1].pc = "in_lookup" /\ lk[t2].pc = "in_lookup"

\* C6: a Loaded call from a worker after node-host offloaded, and a Loaded
\* call naming node-host or an unknown component in any state, is fatal and
\* leaves every flag unchanged.
C6_LoadedIsFatal ==
  [][ ( /\ wpc = "loaded_locked" /\ wpc' # "loaded_locked"
        /\ \/ o.offloadedFromNodeHost /\ mu.w \in Workers
           \/ mu.w \notin Workers )
      => (fatal' # NoPanic /\ o' = o /\ lastReport' = lastReport) ]_vars

\* a worker's Loaded call after node-host offload has aborted the process
C6_Witness ==
  /\ fatal = PanicLoadedAfterOffloaded
  /\ o.offloadedFromNodeHost /\ ~o.readyToDestroy

(* ===================== properties: session manager ===================== *)

\* C7: under the dedup protocol (Update only right after UpdateRequired said
\* "required") the adapter's Update runs at most once per (client, series) of
\* a registered session, and every later UpdateRequired for an applied pair
\* answers "not required" with the first result or with "already responded".
C7_ExactlyOnce ==
  /\ ~twice
  /\ fatal = NoPanic =>
       \A c \in ClientIDs, i \in SeriesIDs :
         applied[c][i] # {} =>
           /\ Registered(c)
           /\ LET r == UpdateRequired(sessions[c], i) IN
                \/ \E first \in applied[c][i] : r = <<first, FALSE, FALSE>>
                \/ r = <<0, TRUE, FALSE>>

\* one applied series has been acknowledged and pruned, another is retained
C7_Witness ==
  /\ fatal = NoPanic
  /\ \E c \in ClientIDs : \E i, j \in SeriesIDs :
       /\ applied[c][i] # {} /\ applied[c][j] # {}
       /\ UpdateRequired(sessions[c], i) = <<0, TRUE, FALSE>>
       /\ \E first \in applied[c][j] :
            UpdateRequired(sessions[c], j) = <<first, FALSE, FALSE>>

\* C8: Update on a session that retains a result for the series is fatal
\* before the adapter is invoked and leaves every session unchanged; Update
\* with no session invokes the adapter and changes no session.
C8_UpdateFatalIfRetained ==
  [][ lastOp'.op = "Update" =>
        LET c == lastOp'.client
            i == lastOp'.arg
        IN
          /\ (c # NilClient /\ i \in DOMAIN sessions[c].History) =>
               /\ fatal' = PanicAlreadyHasResponse
               /\ ~lastOp'.invoked
               /\ sessions' = sessions
          /\ (c = NilClient) =>
               /\ lastOp'.invoked
               /\ sessions' = sessions
               /\ fatal' \in {NoPanic, PanicResultsLen} ]_vars

\* an Update on a retained series has aborted the process
C8_Witness ==
  /\ fatal = PanicAlreadyHasResponse
  /\ lastOp.op = "Update" /\ ~lastOp.invoked
  /\ lastOp.client # NilClient
  /\ lastOp.arg \in DOMAIN sessions[lastOp.client].History

\* C9: a session's respondedTo never decreases, and once UpdateRespondedTo
\* was called with v every UpdateRequired for a series <= v answers
\* (0, responded, not required).
C9_RespondedToMonotone ==
  /\ [][ \A c \in ClientIDs :
           (sessions[c] # NoSession /\ sessions'[c] # NoSession) =>
             sessions'[c].RespondedUpTo >= sessions[c].RespondedUpTo ]_vars
  /\ [] ( \A c \in ClientIDs, i \in SeriesIDs :
            (Registered(c) /\ i <= advanced[c]) =>
              UpdateRequired(sessions[c], i) = <<0, TRUE, FALSE>> )

\* UpdateRespondedTo was called with an older value on a session that still
\* retains a result below its high-water mark
C9_Witness ==
  /\ lastOp.op = "UpdateRespondedTo"
  /\ \E c \in ClientIDs :
       /\ Registered(c) /\ advanced[c] = MaxSeries
       /\ \E i \in DOMAIN sessions[c].History : i < advanced[c]

\* C10: RegisterClientID on an unseen id creates an empty session, returns
\* the id and makes ClientRegistered report it; on a known id it returns 0
\* and changes nothing; UnregisterClientID returns the id and removes the
\* session when present, and returns 0 and changes nothing when absent.
C10_RegisterUnregister ==
  [][ LET c == lastOp'.client IN
        /\ lastOp'.op = "RegisterClientID" =>
             IF sessions[c] = NoSession
             THEN /\ RegisterClientID(sessions, c).ret = c
                  /\ sessions'[c].ClientID = c
                  /\ sessions'[c].History = EmptyHistory
                  /\ ClientRegistered(sessions', c).ok
                  /\ \A d \in ClientIDs \ {c} : sessions'[d] = sessions[d]
             ELSE /\ RegisterClientID(sessions, c).ret = 0
                  /\ sessions' = sessions
        /\ lastOp'.op = "UnregisterClientID" =>
             IF sessions[c] # NoSession
             THEN /\ UnregisterClientID(sessions, c).ret = c
                  /\ ~ClientRegistered(sessions', c).ok
                  /\ \A d \in ClientIDs \ {c} : sessions'[d] = sessions[d]
             ELSE /\ UnregisterClientID(sessions, c).ret = 0
                  /\ sessions' = sessions ]_vars

\* a registration was repeated for a client whose session holds results
C10_Witness ==
  /\ lastOp.op = "RegisterClientID"
  /\ sessions[lastOp.client].History # EmptyHistory
  /\ sessions[lastOp.client].RespondedUpTo > 0

(* ========================= properties: snapshot ========================= *)
Returned(call) == call.pc = "idle" /\ call.log # <<>>

\* C11: a successful SaveSnapshot wrote the session section, then the
\* adapter's payload, then the header (sessionSize, adapterSize), the header
\* once and last, and returned sessionSize + adapterSize + SnapshotHeaderSize.
C11_SaveOrder ==
  /\ \A i \in 1..Len(save.log) : save.log[i] = "SaveHeader" => i = Len(save.log)
  /\ (Returned(save) /\ save.ret[2] = "nil") =>
       /\ save.log = <<"Write", "sm.SaveSnapshot", "user.SaveSnapshot", "SaveHeader">>
       /\ save.n = save.len
       /\ save.header = <<save.len, save.sz>>
       /\ save.ret[1] = save.len + save.sz + SnapshotHeaderSize

\* a snapshot with two non-empty sections was saved
C11_Witness ==
  /\ Returned(save) /\ save.ret[2] = "nil"
  /\ save.len > 0 /\ save.sz > 0

\* C12: if a stage of RecoverFromSnapshot failed, the call returns a non-nil
\* error.
C12_FailureIsReturned ==
  (Returned(rec) /\ fatal = NoPanic /\ rec.failed # "none") => rec.ret # "nil"

\* C13: once the reader is open it is closed exactly once on every exit
\* path, and the stages run in the order get header, validate header,
\* restore sessions, restore adapter, validate payload.
C13_CloseOnceInOrder ==
  LET order == <<"NewSnapshotReader", "GetHeader", "ValidateHeader", "load",
                 "sm.RecoverFromSnapshot", "ValidatePayload">>
      opened == rec.log # <<>> /\ rec.failed # "NewSnapshotReader"
      stages == IF rec.pc = "idle" /\ opened
                THEN SubSeq(rec.log, 1, Len(rec.log) - 1) ELSE rec.log
  IN
    /\ Len(stages) <= Len(order)
    /\ \A i \in 1..Len(stages) : stages[i] = order[i]
    /\ (rec.pc = "idle" /\ opened) =>
         (rec.closes = 1 /\ rec.log[Len(rec.log)] = "Close")
    /\ (rec.pc # "idle" \/ ~opened) => rec.closes = 0
    /\ (Returned(rec) /\ rec.failed = "none") => stages = order

\* restoring the sessions failed and the call has returned
C13_Witness ==
  /\ Returned(rec) /\ rec.failed = "load"
  /\ rec.closes = 1

\* C14: with a Regular adapter PrepareSnapshot is fatal and the user state
\* machine is never asked to prepare; the adapter's SaveSnapshot with a
\* non-empty context is fatal without invoking the user state machine, and
\* with an empty context it invokes the user state machine.
C14_SequentialAdapter ==
  /\ [][ (~concurrent /\ prep' # prep) => FALSE ]_vars
  /\ [][ (~concurrent /\ DoPrepareSnapshot) => fatal' = PanicNotConcurrent ]_vars
  /\ [] ( ~concurrent =>
            LET adapterCalled == \E i \in 1..Len(save.log) : save.log[i] = "sm.SaveSnapshot"
                userCalled == \E i \in 1..Len(save.log) : save.log[i] = "user.SaveSnapshot"
            IN
              /\ ~prep.asked
              /\ (adapterCalled /\ save.ctx # "nil") =>
                   (fatal = PanicCtxNotNil /\ ~userCalled)
              /\ (adapterCalled /\ save.ctx = "nil") =>
                   (userCalled /\ fatal # PanicCtxNotNil) )

\* a Regular adapter was handed a context and the process has aborted
C14_Witness ==
  /\ ~concurrent /\ fatal = PanicCtxNotNil
  /\ save.ctx # "nil"
  /\ save.log = <<"Write", "sm.SaveSnapshot">>

NodeHostOffloadStep ==
  /\ wpc = "offloaded_locked" /\ mu.w = FromNodeHost
  /\ wpc' = "offloaded_set"

LoadedWorkersOffloaded(s) ==
  /\ s.loadedByStepWorker => s.offloadedFromStepWorker
  /\ s.loadedByCommitWorker => s.offloadedFromCommitWorker
  /\ s.loadedBySnapshotWorker => s.offloadedFromSnapshotWorker

\* C15: right after Offloaded(FromNodeHost) each worker's offloaded-from flag
\* is true if the worker never reported Loaded and keeps its previous value
\* otherwise; so the instance is ready for destruction exactly when every
\* worker that loaded has already offloaded, and once the node-host call is
\* over the instance is destroyed exactly in that case.
C15_NodeHostOffload ==
  /\ [][ NodeHostOffloadStep =>
          /\ o'.offloadedFromNodeHost
          /\ o'.offloadedFromStepWorker =
                (IF o.loadedByStepWorker THEN o.offloadedFromStepWorker ELSE TRUE)
          /\ o'.offloadedFromCommitWorker =
                (IF o.loadedByCommitWorker THEN o.offloadedFromCommitWorker ELSE TRUE)
          /\ o'.offloadedFromSnapshotWorker =
                (IF o.loadedBySnapshotWorker THEN o.offloadedFromSnapshotWorker ELSE TRUE)
          /\ o'.readyToDestroy <=> LoadedWorkersOffloaded(o) ]_vars
  /\ []( (o.offloadedFromNodeHost /\ mu.w = NoOne) =>
            (o.destroyed <=> LoadedWorkersOffloaded(o)) )

\* node-host has offloaded while the step worker still holds its reference
\* and the commit worker never loaded
C15_Witness ==
  /\ wpc = "offloaded_set" /\ mu.w = FromNodeHost
  /\ o.loadedByStepWorker /\ ~o.offloadedFromStepWorker
  /\ ~o.loadedByCommitWorker /\ o.offloadedFromCommitWorker
  /\ ~o.readyToDestroy

\* C19: whenever the mutex is not write-held, and whenever a Lookup holds
\* the read lock, readyToDestroy equals destroyed, and the value the Lookup
\* read for destroyed equals readyToDestroy.
C19_ReadyNotObservable ==
  /\ (mu.w = NoOne) => (o.readyToDestroy = o.destroyed)
  /\ \A t \in LookupThreads :
       lk[t].pc = "rlocked" =>
         /\ o.readyToDestroy = o.destroyed
         /\ lk[t].saw = o.readyToDestroy

\* a Lookup holds the read lock after the instance was destroyed
C19_Witness ==
  \E t \in LookupThreads :
    /\ lk[t].pc = "rlocked" /\ lk[t].saw
    /\ o.readyToDestroy /\ o.destroyed

\* a call that holds the mutex runs to its end: the scheduler eventually
\* runs every step of a started Offloaded or Loaded call; starting a call
\* is left to the components
CallsProgress ==
  /\ WF_vars(OffloadedSetOffloaded)
  /\ WF_vars(OffloadedClose)
  /\ WF_vars(OffloadedSetDestroyed)
  /\ WF_vars(OffloadedUnlock)
  /\ WF_vars(LoadedSetLoaded)
  /\ WF_vars(LoadedUnlock)

SpecLive == Init /\ [][Next]_vars /\ CallsProgress

\* C18: if node-host eventually reports Offloaded and every Loaded report of
\* a worker is eventually followed by that worker's Offloaded report, then
\* eventually the instance is destroyed and Close() has been invoked.
C18_TeardownLiveness ==
  ( /\ <>(o.offloadedFromNodeHost)
    /\ \A w \in Workers :
         (lastReport[w] = "loaded") ~> (lastReport[w] = "offloaded") )
  => <>(o.destroyed /\ closeCount = 1)

\* destroyed after the node-host report came first and a loaded worker's
\* report came last
C18_Witness ==
  /\ o.destroyed /\ closeCount = 1
  /\ mu.w \in Workers
  /\ lastReport[mu.w] = "offloaded" /\ o.loadedByCommitWorker
  /\ \E w \in Workers : lastReport[w] = "none"

(* ===================== properties: dedup window ======================= *)
\* C16: UpdateRequired answers (0, true, false) when seriesID <= respondedTo,
\* also when a result for seriesID is still retained; (stored result, false,
\* false) when seriesID > respondedTo and a result is retained; (0, false,
\* true) otherwise; and an UpdateRequired call changes no session.
C16_DedupCheck ==
  /\ [] ( \A c \in ClientIDs, i \in SeriesIDs :
            Registered(c) =>
              LET ses == sessions[c]
                  r == UpdateRequired(ses, i)
              IN
                IF i <= ses.RespondedUpTo THEN r = <<0, TRUE, FALSE>>
                ELSE IF i \in DOMAIN ses.History
                     THEN r = <<ses.History[i], FALSE, FALSE>>
                ELSE r = <<0, FALSE, TRUE>> )
  /\ [][ lastOp'.op = "UpdateRequired" => sessions' = sessions ]_vars

\* UpdateRequired was asked about a series at or below the high-water mark
\* whose result is still retained
C16_Witness ==
  /\ lastOp.op = "UpdateRequired" /\ fatal = NoPanic
  /\ Registered(lastOp.client)
  /\ lastOp.arg <= sessions[lastOp.client].RespondedUpTo
  /\ lastOp.arg \in DOMAIN sessions[lastOp.client].History

\* every retained result lies above the high-water mark
NoStaleResult(ses) == \A i \in DOMAIN ses.History : i > ses.RespondedUpTo

\* C20 as stated: after any non-fatal Update and UpdateRespondedTo calls no
\* session retains a result at or below its high-water mark.
C20_NoStaleResultEver ==
  fatal = NoPanic => \A c \in ClientIDs : NoStaleResult(sessions[c])

\* C20, amended: every call other than an Update with a seriesID at or below
\* the session's high-water mark keeps all retained results above the mark;
\* an UpdateRespondedTo that raises the mark leaves none at or below it; and
\* an Update on a retained seriesID is fatal and overwrites nothing.
C20_StaleOnlyByUncheckedUpdate ==
  [][ \A c \in ClientIDs :
        LET staleUpdate == /\ lastOp'.op = "Update" /\ lastOp'.client = c
                           /\ lastOp'.arg <= sessions[c].RespondedUpTo
        IN
          /\ (NoStaleResult(sessions[c]) /\ ~staleUpdate) =>
               NoStaleResult(sessions'[c])
          /\ (sessions[c] # NoSession /\ sessions'[c] # NoSession
                /\ sessions'[c].RespondedUpTo > sessions[c].RespondedUpTo) =>
               NoStaleResult(sessions'[c])
          /\ (lastOp'.op = "Update" /\ lastOp'.client = c
                /\ lastOp'.arg \in DOMAIN sessions[c].History) =>
               (fatal' # NoPanic /\ sessions'[c] = sessions[c]) ]_vars

\* an Update above a raised high-water mark has recorded its result
C20_Witness ==
  /\ lastOp.op = "Update" /\ fatal = NoPanic /\ lastOp.client # NilClient
  /\ sessions[lastOp.client].RespondedUpTo > 0
  /\ lastOp.arg \in DOMAIN sessions[lastOp.client].History
  /\ NoStaleResult(sessions[lastOp.client])

====
